---- MODULE Spec2Model ----
(***************************************************************************)
(* Health Payments Backoffice API (src/main.py): the three aggregation     *)
(* handlers metrics, list_transactions and transactions_weekly over the    *)
(* "transaction" collection.                                               *)
(*                                                                         *)
(* Units.  A datetime is the number of whole hours since datetime.min      *)
(* (0001-01-01 00:00); a calendar date (what strftime('%Y-%m-%d') keeps of *)
(* a datetime) is the number of whole days since datetime.min.  An amount  *)
(* is a number of mills (1/1000 of the currency unit), so that             *)
(* round(x, 2) is a real conversion (to a multiple of 10 mills) and is not *)
(* the identity.  A success rate is a number of 1/10000.                   *)
(*                                                                         *)
(* Floats are taken as exact decimals: the representation error of binary *)
(* floating point is not modelled.                                         *)
(*                                                                         *)
(* A document is a function from the keys it holds to their values, so a   *)
(* key can be absent (dict.get then gives the default) or hold None        *)
(* (None, NoneDate, NoneAmount by the type of the other values of the key).*)
(***************************************************************************)
EXTENDS Integers, Sequences, FiniteSets, TLC

VARIABLES
    db,        \* TRUE: the module-level handle db is not None
    store,     \* db["transaction"]: the documents, in insertion order
    phase,     \* "idle" | "running" | "done": the position of the one request in flight
    op,        \* "none" | "metrics" | "list" | "weekly": the handler serving it
    now,       \* datetime.utcnow() as read by the handler
    limit,     \* list_transactions' parameter
    pc,        \* metrics: the number of the next store query (1..8)
    loc,       \* metrics: the locals assigned so far, one slot per query
    result,    \* the payload returned
    outcome,   \* which return was taken: "ok" | "unavailable" | "error" | "propagated"
    raised,    \* TRUE when a store call (find, count_documents, cursor) raised in this request
    startLen   \* Len(store) when the request started

vars == <<db, store, phase, op, now, limit, pc, loc, result, outcome, raised, startLen>>

---------------------------------------------------------------------------
(* Bounds and sampled inputs *)

MaxStore == 3

MaxLimit == 3

BigLimit == 20000000

Today == 739924

HoursPerDay == 24

NoneDate == -1

NoneAmount == -1

None == "<None>"

At(dayOffset, hour) == (Today + dayOffset) * HoursPerDay + hour

NowSet == {At(0, 0), At(0, 12)}

Limits == (1..MaxLimit) \cup {BigLimit}

Min(a, b) == IF a <= b THEN a ELSE b

---------------------------------------------------------------------------
(* Documents that the ingestion path may have written to the collection *)

\* a completed payin of 100.00 today at 09:00
PayinToday ==
    [amount |-> 100000, currency |-> "EUR", status |-> "completed", type |-> "payin",
     partner |-> "Pharmacie Centrale", reference |-> "INV-1", occurred_at |-> At(0, 9)]

\* a pending payout of 50.00 today at 10:00
PayoutPending ==
    [amount |-> 50000, currency |-> "EUR", status |-> "pending", type |-> "payout",
     partner |-> "Clinique St. Michel", reference |-> "PO-1", occurred_at |-> At(0, 10)]

\* a completed payin of 0.006 six days ago at 09:00
PayinFirstDay ==
    [amount |-> 6, currency |-> "EUR", status |-> "completed", type |-> "payin",
     partner |-> None, reference |-> None, occurred_at |-> At(-6, 9)]

\* a failed payout of 0.004 dated tomorrow at 08:00
PayoutTomorrow ==
    [amount |-> 4, currency |-> "GBP", status |-> "failed", type |-> "payout",
     partner |-> "PharmaPlus Lyon", reference |-> "PO-2", occurred_at |-> At(1, 8)]

\* a pending payin of 30.00 three days ago at 15:00
PayinPending ==
    [amount |-> 30000, currency |-> "USD", status |-> "pending", type |-> "payin",
     partner |-> "Centre Dentaire Azur", reference |-> "INV-2", occurred_at |-> At(-3, 15)]

\* a completed payout of 20.00 seven days ago at 13:00
PayoutOld ==
    [amount |-> 20000, currency |-> "EUR", status |-> "completed", type |-> "payout",
     partner |-> None, reference |-> None, occurred_at |-> At(-7, 13)]

\* a document that holds none of amount, currency, status, type, occurred_at
Legacy == [reference |-> "legacy"]

\* a document whose currency and occurred_at are stored as null
NullCurrency ==
    [amount |-> 2500, currency |-> None, status |-> "completed", type |-> "payin",
     partner |-> None, reference |-> None, occurred_at |-> NoneDate]

\* a payout of today at 11:00 whose amount is stored as null
NullAmount ==
    [amount |-> NoneAmount, currency |-> "EUR", status |-> "completed", type |-> "payout",
     partner |-> None, reference |-> None, occurred_at |-> At(0, 11)]

Documents ==
    {PayinToday, PayoutPending, PayinFirstDay, PayoutTomorrow, PayinPending, PayoutOld,
     Legacy, NullCurrency, NullAmount}

---------------------------------------------------------------------------
(* Python and pymongo primitives *)

\* dict.get(key, default)
Get(d, key, default) == IF key \in DOMAIN d THEN d[key] ELSE default

\* datetime.strftime('%Y-%m-%d'): the calendar date of a datetime
DateOf(t) == t \div HoursPerDay

\* timedelta(days=n)
Days(n) == n * HoursPerDay

\* round(x, 2) of an amount: to the nearest multiple of 10 mills, ties to even
Round2(x) ==
    LET q == x \div 10
        r == x % 10
    IN  IF r > 5 \/ (r = 5 /\ q % 2 = 1) THEN (q + 1) * 10 ELSE q * 10

\* round(success / total, 4) in 1/10000, ties to even; total > 0
Round4(success, total) ==
    LET n == success * 10000
        q == n \div total
        r == n % total
    IN  IF 2 * r > total \/ (2 * r = total /\ q % 2 = 1) THEN q + 1 ELSE q

\* a value that a statement produced, or the exception it raised
Value(v) == [ok |-> TRUE, val |-> v]

Raise == [ok |-> FALSE, val |-> <<>>]

\* float(x): TypeError on None
Float(x) == IF x = NoneAmount THEN Raise ELSE Value(x)

\* pymongo: does document d match filter_query q.  q maps "type" and "status"
\* to the value required and "occurred_at" to the threshold of {"$gte": threshold}.
Matches(d, q) ==
    \A k \in DOMAIN q :
        /\ k \in DOMAIN d
        /\ IF k = "occurred_at"
           THEN d[k] # NoneDate /\ d[k] >= q[k]
           ELSE d[k] = q[k]

\* collection.find(q), in natural (insertion) order
Find(docs, q) == SelectSeq(docs, LAMBDA d : Matches(d, q))

\* collection.count_documents(q)
CountDocuments(docs, q) == Len(Find(docs, q))

\* cursor.limit(n): 0 is no limit, a negative n limits to its absolute value
Limit(docs, n) ==
    IF n = 0 THEN docs
    ELSE SubSeq(docs, 1, Min(IF n < 0 THEN 0 - n ELSE n, Len(docs)))

\* the sort key of cursor.sort("occurred_at", -1): missing and null sort lowest
SortKey(d) == Get(d, "occurred_at", NoneDate)

Orderings(n) == {p \in [1..n -> 1..n] : \A i, j \in 1..n : p[i] = p[j] => i = j}

\* cursor.sort("occurred_at", -1): every order of docs that is descending in
\* occurred_at (the order of documents with equal keys is not specified)
SortDescending(docs) ==
    LET n == Len(docs)
    IN  {[i \in 1..n |-> docs[p[i]]] :
            p \in {q \in Orderings(n) :
                     \A i \in 1..n - 1 : SortKey(docs[q[i]]) >= SortKey(docs[q[i + 1]])}}

---------------------------------------------------------------------------
(* try / except Exception *)

\* try: body / except Exception: handler, as the payload record the request ends with
TryExceptNarrow(body, handler) ==
    IF body.ok THEN [kind |-> "returned", val |-> body.val, caught |-> FALSE]
    ELSE [kind |-> "propagated", val |-> <<>>, caught |-> FALSE]

\* caught tells that the except branch ran
TryExcept(body, handler) ==
    IF body.ok THEN [kind |-> "returned", val |-> body.val, caught |-> FALSE]
    ELSE [kind |-> "returned", val |-> handler, caught |-> TRUE]

---------------------------------------------------------------------------
(* list_transactions *)

PARTNERS ==
    <<"Pharmacie Centrale", "Clinique St. Michel", "PharmaPlus Lyon",
      "Hopital Sainte-Anne", "Centre Dentaire Azur">>

TransactionOutUnvalidated(id, amount, currency, status, type, partner, reference, occurred_at) ==
    Value([id |-> id, amount |-> amount, currency |-> currency, status |-> status,
           type |-> type, partner |-> partner, reference |-> reference,
           occurred_at |-> occurred_at])

\* TransactionOut(...): pydantic refuses None for the required str fields
TransactionOut(id, amount, currency, status, type, partner, reference, occurred_at) ==
    IF currency = None \/ status = None \/ type = None
    THEN Raise
    ELSE Value([id |-> id, amount |-> amount, currency |-> currency, status |-> status,
                type |-> type, partner |-> partner, reference |-> reference,
                occurred_at |-> occurred_at])

\* the i-th mock row (i from 0)
MockRow(i, t) ==
    TransactionOut(ToString(i), 123450 + 1000 * i, "EUR",
                   <<"completed", "pending", "failed">>[(i % 3) + 1],
                   <<"payin", "payout">>[(i % 2) + 1],
                   PARTNERS[(i % Len(PARTNERS)) + 1],
                   "INV-" \o ToString(DateOf(t)) \o "-" \o ToString(i),
                   t - i)

\* the loop over range(n) that builds the mock rows: now - timedelta(hours=i)
\* raises OverflowError once it falls before datetime.min, which a run of n
\* iterations reaches exactly when n - 1 > t
MockRows(n, t) ==
    IF n - 1 > t THEN Raise
    ELSE Value([k \in 1..n |-> MockRow(k - 1, t).val])

\* the row built from one stored document
RowOf(d) ==
    IF ~Float(Get(d, "amount", 0)).ok THEN Raise
    ELSE
    TransactionOut(ToString(Get(d, "_id", None)),
                   Float(Get(d, "amount", 0)).val,
                   Get(d, "currency", "EUR"),
                   Get(d, "status", "completed"),
                   Get(d, "type", "payin"),
                   Get(d, "partner", None),
                   Get(d, "reference", None),
                   Get(d, "occurred_at", NoneDate))

\* the loop over the cursor: it raises when a row's construction raises
RowsOf(docs) ==
    IF \E i \in 1..Len(docs) : ~RowOf(docs[i]).ok THEN Raise
    ELSE Value([i \in 1..Len(docs) |-> RowOf(docs[i]).val])

\* the body of list_transactions' try block; sorted is the order the sort
\* produced and fails tells whether a store call raises
ListBody(avail, sorted, n, t, fails) ==
    IF ~avail THEN MockRows(n, t)
    ELSE IF fails THEN Raise
    ELSE RowsOf(Limit(sorted, n))

list_transactions(avail, sorted, n, t, fails) ==
    TryExcept(ListBody(avail, sorted, n, t, fails), <<>>)

---------------------------------------------------------------------------
(* metrics *)

StartDayNotTruncated(t) == t

\* start_day = datetime(now.year, now.month, now.day)
StartDay(t) == DateOf(t) * HoursPerDay

RECURSIVE Total(_)
\* total += float(d.get("amount", 0)) over the documents of a cursor
Total(docs) ==
    IF docs = <<>> THEN Value(0)
    ELSE LET amount == Float(Get(Head(docs), "amount", 0))
             rest == Total(Tail(docs))
         IN  IF amount.ok /\ rest.ok THEN Value(amount.val + rest.val) ELSE Raise

\* metrics.sum_amount(filter_query)
sum_amount(docs, q) ==
    LET total == Total(Find(docs, q))
    IN  IF total.ok THEN Value(Round2(total.val)) ELSE Raise

OrOneDropped(n) == n

\* count_documents({}) or 1
OrOne(n) == IF n = 0 THEN 1 ELSE n

MetricsFilterCompletedPayouts(i, t) ==
    CASE i = 1 -> [type |-> "payin", status |-> "completed"]
      [] i = 2 -> [type |-> "payout", status |-> "completed"]
      [] i = 3 -> [occurred_at |-> DateOf(t) * HoursPerDay]
      [] i = 4 -> [occurred_at |-> DateOf(t) * HoursPerDay]
      [] i = 5 -> [type |-> "payout", status |-> "pending"]
      [] i = 6 -> [type |-> "payout", status |-> "pending"]
      [] i = 7 -> <<>>
      [] i = 8 -> [status |-> "completed"]

\* the filter_query of the i-th store query of metrics, in execution order
MetricsFilter(i, t) ==
    CASE i = 1 -> [type |-> "payin", status |-> "completed"]
      [] i = 2 -> [type |-> "payout"]
      [] i = 3 -> [occurred_at |-> StartDay(t)]
      [] i = 4 -> [occurred_at |-> StartDay(t)]
      [] i = 5 -> [type |-> "payout", status |-> "pending"]
      [] i = 6 -> [type |-> "payout", status |-> "pending"]
      [] i = 7 -> <<>>
      [] i = 8 -> [status |-> "completed"]

\* the value the i-th store query of metrics assigns: 1 and 2 are the two
\* operands of available_balance, 3 today_count, 4 today_amount,
\* 5 pending_payouts_count, 6 pending_payouts_amount, 7 total_count,
\* 8 success_count
MetricsQuery(i, docs, t) ==
    CASE i \in {1, 2, 4, 6} -> sum_amount(docs, MetricsFilter(i, t))
      [] i \in {3, 5, 8} -> Value(CountDocuments(docs, MetricsFilter(i, t)))
      [] i = 7 -> Value(OrOne(CountDocuments(docs, MetricsFilter(i, t))))

NoLocals == [i \in 1..8 |-> 0]

\* success_count / total_count: ZeroDivisionError when total_count is 0
SuccessRate(success, total) ==
    IF total = 0 THEN Raise ELSE Value(Round4(success, total))

\* the return statement of the try block, from the locals
MetricsReturn(l) ==
    LET rate == SuccessRate(l[8], l[7])
    IN  IF ~rate.ok THEN Raise
        ELSE Value([available_balance |-> Round2(l[1] - l[2]),
                    today |-> [count |-> l[3], amount |-> Round2(l[4])],
                    payouts_pending |-> [count |-> l[5], amount |-> Round2(l[6])],
                    success_rate |-> rate.val])

\* the try block of metrics against one state of the collection
MetricsSnapshot(docs, t) ==
    IF \E i \in 1..8 : ~MetricsQuery(i, docs, t).ok THEN Raise
    ELSE MetricsReturn([i \in 1..8 |-> MetricsQuery(i, docs, t).val])

\* the snapshot returned when db is None
UnavailableSnapshot ==
    [available_balance |-> 12845230,
     today |-> [count |-> 42, amount |-> 2456700],
     payouts_pending |-> [count |-> 3, amount |-> 1240500],
     success_rate |-> 9400]

\* the snapshot returned by except Exception
ErrorSnapshot ==
    [available_balance |-> 10000000,
     today |-> [count |-> 20, amount |-> 1500000],
     payouts_pending |-> [count |-> 2, amount |-> 800000],
     success_rate |-> 9200]

---------------------------------------------------------------------------
(* transactions_weekly *)

\* buckets after the loop over range(7): an insertion-ordered dict, as the
\* sequence of its items
InitBuckets(t) ==
    [i \in 1..7 |-> [date |-> DateOf((t - Days(6)) + Days(i - 1)), amount |-> 0]]

\* buckets[day] = buckets.get(day, 0.0) + amount: a new key goes last
AddToBucket(buckets, day, amount) ==
    IF \E i \in 1..Len(buckets) : buckets[i].date = day
    THEN [i \in 1..Len(buckets) |->
            IF buckets[i].date = day
            THEN [date |-> day, amount |-> buckets[i].amount + amount]
            ELSE buckets[i]]
    ELSE Append(buckets, [date |-> day, amount |-> amount])

RECURSIVE Accumulate(_, _, _)
\* the loop over the cursor: buckets as the loop leaves it, and whether it
\* ran to the end (ok) or stopped at a document whose amount raised
Accumulate(buckets, docs, t) ==
    IF docs = <<>> THEN [ok |-> TRUE, val |-> buckets]
    ELSE LET amount == Float(Get(Head(docs), "amount", 0))
         IN  IF ~amount.ok THEN [ok |-> FALSE, val |-> buckets]
             ELSE Accumulate(AddToBucket(buckets,
                                         DateOf(Get(Head(docs), "occurred_at", t)),
                                         amount.val),
                             Tail(docs), t)

\* [{"date": k, "amount": (i + 1) * step} for i, k in enumerate(buckets.keys())]
Placeholders(buckets, step) ==
    [i \in 1..Len(buckets) |-> [date |-> buckets[i].date, amount |-> i * step]]

\* [{"date": k, "amount": round(v, 2)} for k, v in buckets.items()]
Rounded(buckets) ==
    [i \in 1..Len(buckets) |-> [date |-> buckets[i].date, amount |-> Round2(buckets[i].amount)]]

\* the documents the cursor of transactions_weekly yields
WeeklyCursor(docs, t) == Find(docs, [occurred_at |-> t - Days(6)])

\* transactions_weekly; the cursor yields its first `yielded` documents and
\* then, when fails, raises
transactions_weekly(avail, docs, t, yielded, fails) ==
    LET buckets0 == InitBuckets(t)
        seen == SubSeq(WeeklyCursor(docs, t), 1, yielded)
        loop == IF avail THEN Accumulate(buckets0, seen, t) ELSE Value(buckets0)
        body == IF ~avail THEN Value(Placeholders(buckets0, 300000))
                ELSE IF fails \/ ~loop.ok THEN Raise
                ELSE Value(Rounded(loop.val))
    IN  TryExcept(body, Placeholders(loop.val, 250000))

---------------------------------------------------------------------------
(* The state machine: one request at a time against the collection.  The   *)
(* seed generator is not modelled; the collection is filled by Ingest.    *)

Init ==
    /\ db \in BOOLEAN
    /\ store = <<>>
    /\ phase = "idle"
    /\ op = "none"
    /\ now = 0
    /\ limit = 0
    /\ pc = 0
    /\ loc = NoLocals
    /\ result = <<>>
    /\ outcome = "none"
    /\ raised = FALSE
    /\ startLen = 0

\* which return of a handler a finished try / except took
OutcomeOf(payload) ==
    IF payload.kind = "propagated" THEN "propagated"
    ELSE IF payload.caught THEN "error"
    ELSE IF ~db THEN "unavailable"
    ELSE "ok"

\* the request ends with this payload
Finish(payload) ==
    /\ phase' = "done"
    /\ result' = payload.val
    /\ outcome' = OutcomeOf(payload)

\* the upstream ingestion path inserts one document; the store assigns _id
Insert(d) ==
    /\ db
    /\ Len(store) < MaxStore
    /\ store' = Append(store, d @@ ("_id" :> (Len(store) + 1)))
    /\ UNCHANGED <<db, phase, op, now, limit, pc, loc, result, outcome, raised, startLen>>

\* an insert while no request is being served
Ingest == phase = "idle" /\ \E d \in Documents : Insert(d)

\* an insert between two store queries of the request being served
IngestDuringRequest == phase = "running" /\ \E d \in Documents : Insert(d)

\* GET /api/transactions?limit=n
ListTransactions ==
    /\ phase = "idle"
    /\ \E n \in Limits, t \in NowSet, fails \in BOOLEAN, sorted \in SortDescending(store) :
        /\ fails => db
        /\ op' = "list"
        /\ now' = t
        /\ limit' = n
        /\ raised' = fails
        /\ Finish(list_transactions(db, sorted, n, t, fails))
    /\ startLen' = Len(store)
    /\ UNCHANGED <<db, store, pc, loc>>

\* GET /api/transactions/weekly
TransactionsWeekly ==
    /\ phase = "idle"
    /\ \E t \in NowSet, fails \in BOOLEAN :
        \E yielded \in 0..Len(WeeklyCursor(store, t)) :
            /\ fails => db
            /\ ~fails => yielded = Len(WeeklyCursor(store, t))
            /\ op' = "weekly"
            /\ now' = t
            /\ raised' = fails
            /\ Finish(transactions_weekly(db, store, t, yielded, fails))
    /\ startLen' = Len(store)
    /\ UNCHANGED <<db, store, limit, pc, loc>>

\* GET /api/metrics with db None
MetricsUnavailable ==
    /\ phase = "idle"
    /\ ~db
    /\ op' = "metrics"
    /\ now' \in NowSet
    /\ Finish(TryExcept(Value(UnavailableSnapshot), ErrorSnapshot))
    /\ startLen' = Len(store)
    /\ UNCHANGED <<db, store, limit, pc, loc, raised>>

\* GET /api/metrics with a db: the handler reads the clock and enters try
MetricsBegin ==
    /\ phase = "idle"
    /\ db
    /\ op' = "metrics"
    /\ now' \in NowSet
    /\ phase' = "running"
    /\ pc' = 1
    /\ startLen' = Len(store)
    /\ UNCHANGED <<db, store, limit, loc, result, outcome, raised>>

\* one of the first seven store queries of metrics answers
MetricsQueryStep ==
    /\ phase = "running"
    /\ op = "metrics"
    /\ pc \in 1..7
    /\ MetricsQuery(pc, store, now).ok
    /\ loc' = [loc EXCEPT ![pc] = MetricsQuery(pc, store, now).val]
    /\ pc' = pc + 1
    /\ UNCHANGED <<db, store, phase, op, now, limit, result, outcome, raised, startLen>>

\* the last store query answers and the handler returns
MetricsLastStep ==
    /\ phase = "running"
    /\ op = "metrics"
    /\ pc = 8
    /\ MetricsQuery(pc, store, now).ok
    /\ loc' = [loc EXCEPT ![pc] = MetricsQuery(pc, store, now).val]
    /\ Finish(TryExcept(MetricsReturn(loc'), ErrorSnapshot))
    /\ UNCHANGED <<db, store, op, now, limit, pc, raised, startLen>>

\* sum_amount raises on a stored amount that float() refuses
MetricsAmountRaises ==
    /\ phase = "running"
    /\ op = "metrics"
    /\ pc \in 1..8
    /\ ~MetricsQuery(pc, store, now).ok
    /\ Finish(TryExcept(Raise, ErrorSnapshot))
    /\ UNCHANGED <<db, store, op, now, limit, pc, loc, raised, startLen>>

\* a store query of metrics raises
MetricsQueryRaises ==
    /\ phase = "running"
    /\ op = "metrics"
    /\ pc \in 1..8
    /\ raised' = TRUE
    /\ Finish(TryExcept(Raise, ErrorSnapshot))
    /\ UNCHANGED <<db, store, op, now, limit, pc, loc, startLen>>

\* the response is sent; the request's locals are gone
Respond ==
    /\ phase = "done"
    /\ phase' = "idle"
    /\ op' = "none"
    /\ now' = 0
    /\ limit' = 0
    /\ pc' = 0
    /\ loc' = NoLocals
    /\ result' = <<>>
    /\ outcome' = "none"
    /\ raised' = FALSE
    /\ startLen' = 0
    /\ UNCHANGED <<db, store>>

Next ==
    \/ Ingest
    \/ ListTransactions
    \/ TransactionsWeekly
    \/ MetricsUnavailable
    \/ MetricsBegin
    \/ MetricsQueryStep
    \/ MetricsLastStep
    \/ MetricsAmountRaises
    \/ MetricsQueryRaises
    \/ Respond

\* the collection does not change while a request is served
Spec == Init /\ [][Next]_vars

NextConcurrent == Next \/ IngestDuringRequest

\* the ingestion path inserts while a request is served
SpecConcurrent == Init /\ [][NextConcurrent]_vars

---------------------------------------------------------------------------
(* What the claims speak of, stated over the collection itself *)

Done(o) == phase = "done" /\ op = o

\* the calendar date of the request
TodayOf(t) == t \div HoursPerDay

\* the documents of the collection, by position
Positions == 1..Len(store)

Has(d, key) == key \in DOMAIN d

Dated(d) == Has(d, "occurred_at") /\ d.occurred_at # NoneDate

AmountOf(d) == IF Has(d, "amount") /\ d.amount # NoneAmount THEN d.amount ELSE 0

RECURSIVE SumAmounts(_)
\* the sum of amount over the documents at the positions S
SumAmounts(S) ==
    IF S = {} THEN 0
    ELSE LET i == CHOOSE j \in S : TRUE
         IN  AmountOf(store[i]) + SumAmounts(S \ {i})

Where(P(_)) == {i \in Positions : P(store[i])}

\* the seven dates today-6 .. today, oldest first
IsTrailingWeek(rows, t) ==
    /\ Len(rows) = 7
    /\ \A i \in 1..7 : rows[i].date = TodayOf(t) - 7 + i

---------------------------------------------------------------------------
(* C1 *)

\* C1: whatever the store holds and whether or not it is available or fails,
\* transactions_weekly returns exactly 7 entries whose dates are the
\* consecutive calendar dates today-6 .. today in increasing order.
C1_WeeklyAlwaysSevenDates ==
    Done("weekly") => IsTrailingWeek(result, now)

---------------------------------------------------------------------------
(* C2 *)

\* C2: every snapshot metrics returns has success_rate within [0,1]; on an
\* available store that holds no record and whose queries all answer, the
\* call returns the computed snapshot, with success_rate 0, and not the
\* error fallback.
C2_SuccessRateInUnitInterval ==
    Done("metrics") =>
        /\ result.success_rate \in 0..10000
        /\ (db /\ store = <<>> /\ ~raised) =>
              /\ outcome = "ok"
              /\ result.success_rate = 0
              /\ result # ErrorSnapshot

\* metrics has answered from an available, empty store
C2_Witness ==
    Done("metrics") /\ db /\ store = <<>> /\ ~raised /\ result.success_rate = 0

---------------------------------------------------------------------------
(* C3 *)

IsCompletedPayin(d) ==
    Has(d, "type") /\ d.type = "payin" /\ Has(d, "status") /\ d.status = "completed"

IsPayout(d) == Has(d, "type") /\ d.type = "payout"

\* C3 as stated: when the store is available and no query fails,
\* available_balance is the sum of amount over the completed payins minus
\* the sum of amount over all payouts of any status (as the amount of 2
\* decimals that this difference rounds to).
C3_AvailableBalanceIsDifferenceOfSums ==
    (Done("metrics") /\ outcome = "ok") =>
        result.available_balance =
            Round2(SumAmounts(Where(IsCompletedPayin)) - SumAmounts(Where(IsPayout)))

\* C3 as amended: when the store is available and no query fails,
\* available_balance is the sum of amount over the completed payins, rounded
\* to 2 decimals, minus the sum of amount over all payouts of any status,
\* rounded to 2 decimals; pending and failed payins do not contribute.
C3_AvailableBalanceIsDifferenceOfRoundedSums ==
    (Done("metrics") /\ outcome = "ok") =>
        result.available_balance =
            Round2(SumAmounts(Where(IsCompletedPayin))) - Round2(SumAmounts(Where(IsPayout)))

\* metrics has answered from a store holding a completed payin, a pending
\* payin and a payout that is not completed
C3_Witness ==
    /\ Done("metrics") /\ outcome = "ok"
    /\ \E i \in Positions : IsCompletedPayin(store[i]) /\ AmountOf(store[i]) > 0
    /\ \E i \in Positions : store[i] \in {d @@ ("_id" :> i) : d \in {PayinPending}}
    /\ \E i \in Positions : store[i] \in {d @@ ("_id" :> i) : d \in {PayoutPending, PayoutTomorrow}}

---------------------------------------------------------------------------
(* C4 *)

\* C4: for every positive limit, list_transactions returns
\* min(limit, number of records) rows when the store is available and the
\* query succeeds, exactly limit rows when the store is unavailable, and no
\* row when a query or a record conversion raised.
C4_ListLength ==
    Done("list") =>
        /\ ~db => Len(result) = limit
        /\ (db /\ outcome = "ok") => Len(result) = Min(limit, Len(store))
        /\ (db /\ outcome = "error") => Len(result) = 0

---------------------------------------------------------------------------
(* C5 *)

\* C5: no call of metrics, list_transactions or transactions_weekly ends in
\* a propagated error, whether the store is unavailable or a store call
\* raises at any step: a request being served can always take its next step
\* and ends with a payload; for metrics the payload is one constant snapshot
\* when the store is unavailable and another one when a step raised.
C5_NeverPropagates ==
    /\ phase = "running" => (op = "metrics" /\ pc \in 1..8)
    /\ phase = "done" =>
        /\ outcome \in {"ok", "unavailable", "error"}
        /\ (op = "metrics" /\ ~db) => (outcome = "unavailable" /\ result = UnavailableSnapshot)
        /\ (op = "metrics" /\ raised) => (outcome = "error" /\ result = ErrorSnapshot)
        /\ (op \in {"list", "weekly"} /\ raised) => outcome = "error"
    /\ UnavailableSnapshot # ErrorSnapshot

\* a store query of metrics has raised after earlier ones answered
C5_Witness ==
    Done("metrics") /\ raised /\ pc > 1 /\ result = ErrorSnapshot

---------------------------------------------------------------------------
(* C6 *)

\* C6: when the store is unavailable or the weekly query raises at any point,
\* transactions_weekly emits exactly the 7 dates today-6 .. today, oldest
\* first, with the amounts (i+1)*300.0 (unavailable) or (i+1)*250.0 (raised);
\* none is 0 and none is an amount accumulated before the error.
C6_WeeklyFallbackSevenPlaceholders ==
    (Done("weekly") /\ outcome \in {"unavailable", "error"}) =>
        /\ IsTrailingWeek(result, now)
        /\ \A i \in 1..Len(result) :
              result[i].amount = i * (IF outcome = "unavailable" THEN 300000 ELSE 250000)

---------------------------------------------------------------------------
(* C7 *)

\* the amount reported for calendar date day
ReportedFor(rows, day, amount) ==
    \E i \in 1..Len(rows) : rows[i].date = day /\ rows[i].amount = amount

\* C7: when the store is available and no query fails, the amount reported
\* for each date D of today-6 .. today is the sum of amount over every record
\* whose occurred_at falls on D, at any time of day, of every type and status
\* (as an amount rounded to 2 decimals); on an empty store every bucket is 0.
C7_WeeklyBucketIsSumOfTheDay ==
    (Done("weekly") /\ outcome = "ok") =>
        \A day \in (TodayOf(now) - 6)..TodayOf(now) :
            ReportedFor(result, day,
                Round2(SumAmounts({i \in Positions :
                    Dated(store[i]) /\ store[i].occurred_at \div HoursPerDay = day})))

---------------------------------------------------------------------------
(* C8 *)

\* the records that occurred at or after midnight of the request's date
OccurredToday ==
    {i \in Positions :
        Dated(store[i]) /\ store[i].occurred_at >= TodayOf(now) * HoursPerDay}

\* C8: when the store is available and no query fails, today.count is the
\* number of records with occurred_at >= day_start and today.amount is the
\* sum of amount over those same records (as an amount rounded to 2
\* decimals), whatever their type or status and with no upper bound on
\* occurred_at; records without occurred_at are in neither.
C8_TodayCountsAndSumsSameRecords ==
    (Done("metrics") /\ outcome = "ok") =>
        /\ result.today.count = Cardinality(OccurredToday)
        /\ result.today.amount = Round2(SumAmounts(OccurredToday))

\* metrics has answered from a store holding a payout of today, a record
\* dated tomorrow and a record without occurred_at
C8_Witness ==
    /\ Done("metrics") /\ outcome = "ok"
    /\ now = At(0, 12)
    /\ \E i \in Positions : IsPayout(store[i]) /\ i \in OccurredToday
                            /\ store[i].occurred_at < now
    /\ \E i \in Positions : Dated(store[i]) /\ i \in OccurredToday
                            /\ store[i].occurred_at >= (TodayOf(now) + 1) * HoursPerDay
    /\ \E i \in Positions : ~Dated(store[i])
    /\ result.today.count = 2

---------------------------------------------------------------------------
(* C9 *)

\* the row the claim describes for a stored record
DefaultedRow(d) ==
    [id |-> ToString(d._id),
     amount |-> IF Has(d, "amount") THEN d.amount ELSE 0,
     currency |-> IF Has(d, "currency") THEN d.currency ELSE "EUR",
     status |-> IF Has(d, "status") THEN d.status ELSE "completed",
     type |-> IF Has(d, "type") THEN d.type ELSE "payin",
     partner |-> IF Has(d, "partner") THEN d.partner ELSE None,
     reference |-> IF Has(d, "reference") THEN d.reference ELSE None,
     occurred_at |-> IF Has(d, "occurred_at") THEN d.occurred_at ELSE NoneDate]

\* C9: every row list_transactions returns has non-null amount, currency,
\* status and type; a stored record that lacks one of these fields is
\* returned with the default 0, EUR, completed, payin for it, and every other
\* field and record of the result is returned as stored.
C9_RowsDefaultedNeverNull ==
    Done("list") =>
        /\ \A i \in 1..Len(result) :
              /\ result[i].currency # None
              /\ result[i].status # None
              /\ result[i].type # None
              /\ result[i].amount # NoneAmount
        /\ (db /\ outcome = "ok") =>
              \E sorted \in SortDescending(store) :
                  \A i \in 1..Len(result) : result[i] = DefaultedRow(sorted[i])

\* a record without amount, currency, status and type has been returned
\* next to a complete one
C9_Witness ==
    /\ Done("list") /\ db /\ outcome = "ok" /\ Len(result) = 2
    /\ \E i, j \in 1..2 :
          /\ result[i].reference = "legacy" /\ result[i].currency = "EUR"
          /\ result[i].status = "completed" /\ result[i].type = "payin"
          /\ result[i].amount = 0
          /\ result[j].type = "payout" /\ result[j].status = "pending"

---------------------------------------------------------------------------
(* C10 *)

\* C10: although the ingestion path inserts records between the store
\* queries of one metrics call, the snapshot returned is the snapshot of one
\* state the store was in at some point of the call.
C10_SnapshotOfOneStoreState ==
    (Done("metrics") /\ outcome = "ok") =>
        \E k \in startLen..Len(store) :
            /\ MetricsSnapshot(SubSeq(store, 1, k), now).ok
            /\ result = MetricsSnapshot(SubSeq(store, 1, k), now).val

====
